---- MODULE Spec2Model ----
(***************************************************************************)
(* BrainstormGPT (src/main.py): a script that seeds a proposal, lets two   *)
(* chat agents debate it under a token budget, synthesises the transcript  *)
(* and exports three files.                                                *)
(*                                                                         *)
(* A text is a record [pad, chars, toks]: `chars` characters and `toks`    *)
(* tokens of the text without its surrounding whitespace, and `pad`        *)
(* surrounding whitespace characters (one token each).  str.strip() drops  *)
(* the pad; len() counts pad and chars; the encoder counts pad and toks.   *)
(***************************************************************************)
EXTENDS Integers, Sequences, FiniteSets, TLC

VARIABLES
    pc,                \* position of the script
    engine,            \* args.engine
    context_len,       \* {} while the name is unbound, else {4000} or {8000}
    max_len,           \* args.max_len
    problem,           \* input(): problem statement
    additional,        \* input(): additional information
    seed,              \* input() or generated seed
    messages,          \* the transcript
    max_tokens,        \* the loop's budget snapshot
    active_prompt,     \* system prompt, later the synthesis prompt
    conversation_string, \* flattened transcript
    synthesis,         \* result of the synthesis call
    html,              \* result of the report call
    files,             \* files written so far
    chatCalls,         \* chat requests issued to the remote service, in order
    queryCalls,        \* single-prompt requests issued, in order
    error              \* exception that ended the run, "none" otherwise

vars == <<pc, engine, context_len, max_len, problem, additional, seed, messages,
          max_tokens, active_prompt, conversation_string, synthesis, html,
          files, chatCalls, queryCalls, error>>

----------------------------------------------------------------------------
\* Bounds of the exploration.

\* largest --max_len explored (the smallest is -1)
MaxBudget == 5

\* longest history handed to chat_GPT on its own
MaxHistory == 4

\* longest transcript written to conversation.txt on its own
MaxExportTurns == 2

\* most lines of one text written to conversation.txt on its own
MaxLines == 3

\* largest token count of a supplied or generated seed
MaxSeedTokens == 3

\* largest token count of one reply of the remote service
MaxReplyTokens == 4

\* turns after which the exploration stops issuing chat calls
MaxTurns == 6

----------------------------------------------------------------------------
\* Program constants.

\* len(agent2_response) < 50
ShortReply == 50

\* query_GPT(..., max_tokens=512, ...)
DefaultMaxTokens == 512

\* parser.add_argument("--max_len", type=int, default=2048)
DefaultMaxLen == 2048

\* context_len of gpt-3.5-turbo
ContextLen35 == 4000

\* context_len of gpt-4
ContextLen4 == 8000

----------------------------------------------------------------------------
\* Texts.

Text(p, c, t) == [pad |-> p, chars |-> c, toks |-> t]

\* ""
Empty == Text(0, 0, 0)

\* str.strip()
strip(t) == [t EXCEPT !.pad = 0]

\* len(str)
len(t) == t.pad + t.chars

\* len(enc.encode(str)) of one text
EncodeLen(t) == t.pad + t.toks

RECURSIVE SumEncodeLen(_)
SumEncodeLen(ms) ==
    IF ms = <<>> THEN 0 ELSE EncodeLen(Head(ms)) + SumEncodeLen(Tail(ms))

\* only the first message counted
compute_total_tokens_SeedOnly(ms) ==
    IF ms = <<>> THEN 0 ELSE EncodeLen(Head(ms))

\* compute_total_tokens: the messages joined by "\n" (one token each), encoded
compute_total_tokens(ms) ==
    IF ms = <<>> THEN 0 ELSE SumEncodeLen(ms) + (Len(ms) - 1)

----------------------------------------------------------------------------
\* Prompts: a template with its slots filled.

Prompt(t, p, a, c, s) ==
    [template |-> t, problem |-> p, additional |-> a, conversation |-> c,
     synthesis |-> s]

\* the seeding instruction, with or without the additional information
SeedPrompt(p, a) ==
    Prompt(IF a = Empty THEN "propose" ELSE "propose_additional", p, a, <<>>, Empty)

\* brainstorming_prompt.format(problem=..., additional=...)
BrainstormingPrompt(p, a) == Prompt("brainstorming", p, a, <<>>, Empty)

\* synthesis_prompt.format(problem=..., additional=..., conversation=...)
SynthesisPrompt(p, a, c) == Prompt("synthesis", p, a, c, Empty)

\* the report instruction around the synthesis
ReportPrompt(s) == Prompt("report", Empty, Empty, <<>>, s)

\* f"Agent {i % 2 + 1}: {message}\n\n" for every message (i counts from 0)
Flatten(ms) ==
    [i \in 1..Len(ms) |-> [agent |-> ((i - 1) % 2) + 1, content |-> ms[i]]]

\* tokens of the fixed words of the synthesis template
SynthesisTemplateTokens == 55

\* tokens of "\nAdditional Information: "
AdditionalLabelTokens == 4

\* tokens of "Agent N:" and of the blank line after an entry
AgentLabelTokens == 4

RECURSIVE ConversationTokens(_)
ConversationTokens(c) ==
    IF c = <<>> THEN 0
    ELSE AgentLabelTokens + EncodeLen(Head(c).content) + ConversationTokens(Tail(c))

\* len(enc.encode(active_prompt)) of the synthesis prompt
SynthesisPromptTokens(p) ==
    SynthesisTemplateTokens + EncodeLen(p.problem)
    + (IF p.additional = Empty THEN 0
       ELSE AdditionalLabelTokens + EncodeLen(p.additional))
    + ConversationTokens(p.conversation)

----------------------------------------------------------------------------
\* The completion client: the request each wrapper sends.

\* query_GPT: one user message holding the prompt
query_GPT(prompt, mt, eng) ==
    [model |-> eng,
     messages |-> <<[role |-> "user", content |-> prompt]>>,
     max_tokens |-> mt]

\* the parity test inverted
RoleOf_Flipped(i, starter) ==
    IF i % 2 = (IF starter = "user" THEN 1 ELSE 0) THEN "user" ELSE "assistant"

\* the starter argument ignored
RoleOf_IgnoresStarter(i, starter) ==
    IF i % 2 = 0 THEN "user" ELSE "assistant"

\* the role chat_GPT gives to input_messages[i] (i counts from 0)
RoleOf(i, starter) ==
    IF i % 2 = (IF starter = "user" THEN 0 ELSE 1) THEN "user" ELSE "assistant"

\* chat_GPT: the system message, then the history tagged by parity
chat_GPT(input_messages, system_prompt, starter, mt, eng) ==
    [model |-> eng,
     messages |->
        <<[role |-> "system", content |-> system_prompt]>>
        \o [i \in 1..Len(input_messages) |->
               [role |-> RoleOf(i - 1, starter), content |-> input_messages[i]]],
     max_tokens |-> mt]

----------------------------------------------------------------------------
\* What the remote service may answer.

\* replies to a chat request: at most max_tokens tokens; none for max_tokens < 1
ReplyTexts ==
    {Text(p, c, t) : p \in {0, 1}, c \in {0, ShortReply - 1, ShortReply},
                     t \in 0..MaxReplyTokens}

\* replies that max_tokens cut off, or nearly, beyond the short ones above
LengthLimited(mt) ==
    IF mt > MaxReplyTokens + 1
    THEN {Text(0, 4 * mt, mt), Text(0, 4 * mt - 4, mt - 1)}
    ELSE {}

Replies(mt) ==
    {t \in ReplyTexts : /\ (t.chars = 0) <=> (t.toks = 0)
                        /\ mt >= 1
                        /\ EncodeLen(t) <= mt}
    \cup LengthLimited(mt)

\* replies to the synthesis and report requests: nothing, or all max_tokens
LongReplies(mt) ==
    {t \in {Empty, Text(1, 4 * mt - 4, mt - 1)} :
        mt >= 1 /\ t.chars >= 0 /\ EncodeLen(t) <= mt}

----------------------------------------------------------------------------
\* Inputs.

Engines == {"gpt-3.5-turbo", "gpt-4", "gpt-4-32k"}

\* if args.engine == "gpt-3.5-turbo": ... elif args.engine == "gpt-4": ...
ContextLenOf(eng) ==
    IF eng = "gpt-3.5-turbo" THEN {ContextLen35}
    ELSE IF eng = "gpt-4" THEN {ContextLen4}
    ELSE {}

Problems == {Text(0, 21, 4)}

Additionals == {Empty, Text(0, 12, 3)}

SeedInputs ==
    {Empty} \cup {Text(0, ShortReply, t) : t \in 1..MaxSeedTokens}

Init ==
    /\ pc = "seeding"
    /\ engine \in Engines
    /\ context_len = ContextLenOf(engine)
    /\ max_len \in -1..MaxBudget
    /\ problem \in Problems
    /\ additional \in Additionals
    /\ seed \in SeedInputs
    /\ messages = <<>>
    /\ max_tokens = 0
    /\ active_prompt = Prompt("none", Empty, Empty, <<>>, Empty)
    /\ conversation_string = <<>>
    /\ synthesis = Empty
    /\ html = Empty
    /\ files = <<>>
    /\ chatCalls = <<>>
    /\ queryCalls = <<>>
    /\ error = "none"

----------------------------------------------------------------------------
\* The script, one action per step between two remote calls.

\* the exception caught and the step tried again
Raise_Retry(e) == /\ pc' = pc
                  /\ error' = e

Raise(e) == /\ pc' = "raised"
            /\ error' = e

\* the value bound to context_len (a NameError while the name is unbound)
ContextLen == CHOOSE c \in context_len : TRUE

\* the request of the seeding call
SeedRequest == query_GPT(SeedPrompt(problem, additional), DefaultMaxTokens, engine)

\* the generated seed kept untrimmed
GenerateSeed_NoStrip(reply) ==
    /\ pc = "seeding"
    /\ seed = Empty
    /\ queryCalls' = Append(queryCalls, SeedRequest)
    /\ reply \in Replies(SeedRequest.max_tokens)
    /\ seed' = reply
    /\ messages' = <<seed'>>
    /\ active_prompt' = BrainstormingPrompt(problem, additional)
    /\ pc' = "loop"
    /\ UNCHANGED <<engine, context_len, max_len, problem, additional, max_tokens,
                   conversation_string, synthesis, html, files, chatCalls, error>>

\* seed == "": generate one, then messages = [seed] and the system prompt
GenerateSeed(reply) ==
    /\ pc = "seeding"
    /\ seed = Empty
    /\ queryCalls' = Append(queryCalls, SeedRequest)
    /\ reply \in Replies(SeedRequest.max_tokens)
    /\ seed' = strip(reply)
    /\ messages' = <<seed'>>
    /\ active_prompt' = BrainstormingPrompt(problem, additional)
    /\ pc' = "loop"
    /\ UNCHANGED <<engine, context_len, max_len, problem, additional, max_tokens,
                   conversation_string, synthesis, html, files, chatCalls, error>>

\* the seeding call raises
GenerateSeedFails ==
    /\ pc = "seeding"
    /\ seed = Empty
    /\ queryCalls' = Append(queryCalls, SeedRequest)
    /\ Raise("GenerationError")
    /\ UNCHANGED <<engine, context_len, max_len, problem, additional, seed,
                   messages, max_tokens, active_prompt, conversation_string,
                   synthesis, html, files, chatCalls>>

\* seed != "": messages = [seed] and the system prompt
UseSuppliedSeed ==
    /\ pc = "seeding"
    /\ seed # Empty
    /\ messages' = <<seed>>
    /\ active_prompt' = BrainstormingPrompt(problem, additional)
    /\ pc' = "loop"
    /\ UNCHANGED <<engine, context_len, max_len, problem, additional, seed,
                   max_tokens, conversation_string, synthesis, html, files,
                   chatCalls, queryCalls, error>>

\* while compute_total_tokens(messages, enc=enc) < args.max_len
LoopCondition(ms, ml) == compute_total_tokens(ms) < ml

LoopTest ==
    /\ pc = "loop"
    /\ pc' = IF LoopCondition(messages, max_len) THEN "agent1" ELSE "synthesize"
    /\ UNCHANGED <<engine, context_len, max_len, problem, additional, seed,
                   messages, max_tokens, active_prompt, conversation_string,
                   synthesis, html, files, chatCalls, queryCalls, error>>

\* max_tokens = args.max_len - compute_total_tokens(messages, enc=enc)
Remaining(ms, ml) == ml - compute_total_tokens(ms)

\* one entry of chatCalls: the arguments and the request built from them
ChatCall(ms, starter, mt) ==
    [starter |-> starter, history |-> ms, system |-> active_prompt,
     request |-> chat_GPT(ms, active_prompt, starter, mt, engine)]

\* the Agent-1 call made with the Agent-2 starter
Agent1Call_AssistantStarter ==
    ChatCall(messages, "assistant", Remaining(messages, max_len))

\* the Agent-1 call of an iteration
Agent1Call == ChatCall(messages, "user", Remaining(messages, max_len))

\* the reply put in front of the transcript
Agent1_Prepends(reply) ==
    /\ pc = "agent1"
    /\ Len(messages) < MaxTurns
    /\ max_tokens' = Remaining(messages, max_len)
    /\ chatCalls' = Append(chatCalls, Agent1Call)
    /\ reply \in Replies(Agent1Call.request.max_tokens)
    /\ messages' = <<strip(reply)>> \o messages
    /\ pc' = "agent2"
    /\ UNCHANGED <<engine, context_len, max_len, problem, additional, seed,
                   active_prompt, conversation_string, synthesis, html, files,
                   queryCalls, error>>

\* the short-reply test applied to the Agent-1 reply as well
Agent1_ChecksShort(reply) ==
    /\ pc = "agent1"
    /\ Len(messages) < MaxTurns
    /\ max_tokens' = Remaining(messages, max_len)
    /\ chatCalls' = Append(chatCalls, Agent1Call)
    /\ reply \in Replies(Agent1Call.request.max_tokens)
    /\ messages' = Append(messages, strip(reply))
    /\ pc' = IF len(strip(reply)) < ShortReply THEN "synthesize" ELSE "agent2"
    /\ UNCHANGED <<engine, context_len, max_len, problem, additional, seed,
                   active_prompt, conversation_string, synthesis, html, files,
                   queryCalls, error>>

\* the snapshot, the Agent-1 call, its trimmed reply appended
Agent1(reply) ==
    /\ pc = "agent1"
    /\ Len(messages) < MaxTurns
    /\ max_tokens' = Remaining(messages, max_len)
    /\ chatCalls' = Append(chatCalls, Agent1Call)
    /\ reply \in Replies(Agent1Call.request.max_tokens)
    /\ messages' = Append(messages, strip(reply))
    /\ pc' = "agent2"
    /\ UNCHANGED <<engine, context_len, max_len, problem, additional, seed,
                   active_prompt, conversation_string, synthesis, html, files,
                   queryCalls, error>>

\* the Agent-1 call raises
Agent1Fails ==
    /\ pc = "agent1"
    /\ Len(messages) < MaxTurns
    /\ max_tokens' = Remaining(messages, max_len)
    /\ chatCalls' = Append(chatCalls, Agent1Call)
    /\ Raise("GenerationError")
    /\ UNCHANGED <<engine, context_len, max_len, problem, additional, seed,
                   messages, active_prompt, conversation_string, synthesis, html,
                   files, queryCalls>>

\* the budget recomputed after the Agent-1 reply
Agent2Call_Recomputed ==
    ChatCall(messages, "assistant", Remaining(messages, max_len))

\* the request built before the Agent-1 reply was appended
Agent2Call_Stale ==
    ChatCall(SubSeq(messages, 1, Len(messages) - 1), "assistant", max_tokens)

\* the Agent-2 call of an iteration
Agent2Call == ChatCall(messages, "assistant", max_tokens)

\* the threshold test off by one
IsShort_Inclusive(response) == len(response) <= ShortReply

\* if len(agent2_response) < 50: break
IsShort(response) == len(response) < ShortReply

\* the Agent-2 call, its trimmed reply appended, the short-reply test
Agent2(reply) ==
    /\ pc = "agent2"
    /\ Len(messages) < MaxTurns
    /\ chatCalls' = Append(chatCalls, Agent2Call)
    /\ reply \in Replies(Agent2Call.request.max_tokens)
    /\ messages' = Append(messages, strip(reply))
    /\ pc' = IF IsShort(strip(reply)) THEN "synthesize" ELSE "loop"
    /\ UNCHANGED <<engine, context_len, max_len, problem, additional, seed,
                   max_tokens, active_prompt, conversation_string, synthesis,
                   html, files, queryCalls, error>>

\* the Agent-2 call raises
Agent2Fails ==
    /\ pc = "agent2"
    /\ Len(messages) < MaxTurns
    /\ chatCalls' = Append(chatCalls, Agent2Call)
    /\ Raise("GenerationError")
    /\ UNCHANGED <<engine, context_len, max_len, problem, additional, seed,
                   messages, max_tokens, active_prompt, conversation_string,
                   synthesis, html, files, queryCalls>>

\* the synthesis prompt over the flattened transcript
SynthesisPromptNow == SynthesisPrompt(problem, additional, Flatten(messages))

\* the request of the synthesis call
SynthesisRequest ==
    query_GPT(SynthesisPromptNow,
              ContextLen - SynthesisPromptTokens(SynthesisPromptNow), engine)

\* flatten, build the synthesis prompt, call, keep the trimmed synthesis
Synthesize(reply) ==
    /\ pc = "synthesize"
    /\ context_len # {}
    /\ conversation_string' = Flatten(messages)
    /\ active_prompt' = SynthesisPromptNow
    /\ queryCalls' = Append(queryCalls, SynthesisRequest)
    /\ reply \in LongReplies(SynthesisRequest.max_tokens)
    /\ synthesis' = strip(reply)
    /\ pc' = "export"
    /\ UNCHANGED <<engine, context_len, max_len, problem, additional, seed,
                   messages, max_tokens, html, files, chatCalls, error>>

\* the synthesis call raises
SynthesizeFails ==
    /\ pc = "synthesize"
    /\ context_len # {}
    /\ conversation_string' = Flatten(messages)
    /\ active_prompt' = SynthesisPromptNow
    /\ queryCalls' = Append(queryCalls, SynthesisRequest)
    /\ Raise("GenerationError")
    /\ UNCHANGED <<engine, context_len, max_len, problem, additional, seed,
                   messages, max_tokens, synthesis, html, files, chatCalls>>

\* context_len is unbound: evaluating the call's max_tokens raises NameError
SynthesizeUnbound ==
    /\ pc = "synthesize"
    /\ context_len = {}
    /\ conversation_string' = Flatten(messages)
    /\ active_prompt' = SynthesisPromptNow
    /\ Raise("NameError")
    /\ UNCHANGED <<engine, context_len, max_len, problem, additional, seed,
                   messages, max_tokens, synthesis, html, files, chatCalls,
                   queryCalls>>

\* one written file
File(name, entries, text) ==
    [name |-> name,
     content |-> [problem |-> problem, additional |-> additional, seed |-> seed,
                  entries |-> entries, text |-> text]]

\* conversation.txt: the header, then every message with its label
ConversationFile == File("conversation.txt", Flatten(messages), Empty)

\* synthesis.txt: the header, then the synthesis
SynthesisFile == File("synthesis.txt", <<>>, synthesis)

\* both exports
Export ==
    /\ pc = "export"
    /\ files' = files \o <<ConversationFile, SynthesisFile>>
    /\ pc' = "report"
    /\ UNCHANGED <<engine, context_len, max_len, problem, additional, seed,
                   messages, max_tokens, active_prompt, conversation_string,
                   synthesis, html, chatCalls, queryCalls, error>>

\* the request of the report call
ReportRequest ==
    query_GPT(ReportPrompt(synthesis), ContextLen - EncodeLen(synthesis), engine)

\* the report call and report.html
Report(reply) ==
    /\ pc = "report"
    /\ queryCalls' = Append(queryCalls, ReportRequest)
    /\ reply \in LongReplies(ReportRequest.max_tokens)
    /\ html' = reply
    /\ files' = Append(files, [name |-> "report.html",
                               content |-> [problem |-> Empty, additional |-> Empty,
                                            seed |-> Empty, entries |-> <<>>,
                                            text |-> reply]])
    /\ pc' = "done"
    /\ UNCHANGED <<engine, context_len, max_len, problem, additional, seed,
                   messages, max_tokens, active_prompt, conversation_string,
                   synthesis, chatCalls, error>>

\* the report call raises
ReportFails ==
    /\ pc = "report"
    /\ queryCalls' = Append(queryCalls, ReportRequest)
    /\ Raise("GenerationError")
    /\ UNCHANGED <<engine, context_len, max_len, problem, additional, seed,
                   messages, max_tokens, active_prompt, conversation_string,
                   synthesis, html, files, chatCalls>>

\* the answers the synthesis call may get
SynthesisReplies ==
    IF context_len = {} THEN {} ELSE LongReplies(SynthesisRequest.max_tokens)

\* the answers the report call may get
ReportReplies ==
    IF context_len = {} THEN {} ELSE LongReplies(ReportRequest.max_tokens)

Next ==
    \/ \E reply \in ReplyTexts : GenerateSeed(reply)
    \/ GenerateSeedFails
    \/ UseSuppliedSeed
    \/ LoopTest
    \/ \E reply \in ReplyTexts : Agent1(reply)
    \/ Agent1Fails
    \/ \E reply \in ReplyTexts : Agent2(reply)
    \/ Agent2Fails
    \/ \E reply \in SynthesisReplies : Synthesize(reply)
    \/ SynthesizeFails
    \/ SynthesizeUnbound
    \/ Export
    \/ \E reply \in ReportReplies : Report(reply)
    \/ ReportFails

Spec == Init /\ [][Next]_vars

\* the steps up to the end of the debating loop
DebateNext ==
    \/ \E reply \in ReplyTexts : GenerateSeed(reply)
    \/ GenerateSeedFails
    \/ UseSuppliedSeed
    \/ LoopTest
    \/ \E reply \in ReplyTexts : Agent1(reply)
    \/ Agent1Fails
    \/ \E reply \in ReplyTexts : Agent2(reply)
    \/ Agent2Fails

\* seeding and debating alone; the script runs each step as soon as the
\* previous one has returned
DebateSpec == Init /\ [][DebateNext]_vars /\ WF_vars(DebateNext)

----------------------------------------------------------------------------
\* Runs with the default --max_len, explored for the replies that use up the
\* max_tokens of their request.

DefaultInit ==
    /\ pc = "seeding"
    /\ engine \in Engines
    /\ context_len = ContextLenOf(engine)
    /\ max_len = DefaultMaxLen
    /\ problem \in Problems
    /\ additional \in Additionals
    /\ seed \in SeedInputs
    /\ messages = <<>>
    /\ max_tokens = 0
    /\ active_prompt = Prompt("none", Empty, Empty, <<>>, Empty)
    /\ conversation_string = <<>>
    /\ synthesis = Empty
    /\ html = Empty
    /\ files = <<>>
    /\ chatCalls = <<>>
    /\ queryCalls = <<>>
    /\ error = "none"

DefaultNext ==
    \/ \E reply \in ReplyTexts : GenerateSeed(reply)
    \/ GenerateSeedFails
    \/ UseSuppliedSeed
    \/ LoopTest
    \/ \E reply \in LengthLimited(Agent1Call.request.max_tokens) : Agent1(reply)
    \/ Agent1Fails
    \/ \E reply \in LengthLimited(Agent2Call.request.max_tokens) : Agent2(reply)
    \/ Agent2Fails
    \/ \E reply \in SynthesisReplies : Synthesize(reply)
    \/ SynthesizeFails
    \/ SynthesizeUnbound
    \/ Export
    \/ \E reply \in ReportReplies : Report(reply)
    \/ ReportFails

DefaultSpec == DefaultInit /\ [][DefaultNext]_vars

----------------------------------------------------------------------------
\* chat_GPT on its own, applied once to any history, system prompt and starter.

HistoryTexts == {Empty, Text(0, ShortReply, 1)}

Histories == UNION {[1..n -> HistoryTexts] : n \in 0..MaxHistory}

ChatInit ==
    /\ pc = "chat_GPT"
    /\ engine \in {"gpt-3.5-turbo"}
    /\ context_len = ContextLenOf(engine)
    /\ max_len = 0
    /\ problem \in Problems
    /\ additional \in Additionals
    /\ seed = Empty
    /\ messages \in Histories
    /\ max_tokens = DefaultMaxTokens
    /\ active_prompt = BrainstormingPrompt(problem, additional)
    /\ conversation_string = <<>>
    /\ synthesis = Empty
    /\ html = Empty
    /\ files = <<>>
    /\ chatCalls = <<>>
    /\ queryCalls = <<>>
    /\ error = "none"

\* one call of chat_GPT
ApplyChat(starter) ==
    /\ pc = "chat_GPT"
    /\ chatCalls' = <<ChatCall(messages, starter, max_tokens)>>
    /\ pc' = "returned"
    /\ UNCHANGED <<engine, context_len, max_len, problem, additional, seed,
                   messages, max_tokens, active_prompt, conversation_string,
                   synthesis, html, files, queryCalls, error>>

ChatNext == \E starter \in {"user", "assistant"} : ApplyChat(starter)

ChatSpec == ChatInit /\ [][ChatNext]_vars

----------------------------------------------------------------------------
\* The conversation export on its own, at the level of lines.  Here a text is
\* the sequence of its lines (split at "\n") and a line a sequence of words;
\* "" is one empty line.

\* the words "Agent 1:" and "Agent 2:"
AgentLabels == {"Agent 1:", "Agent 2:"}

\* f"Agent {i % 2 + 1}:" for the message at i (from 0)
AgentLabel(i) == IF i % 2 = 0 THEN "Agent 1:" ELSE "Agent 2:"

\* f.write(f"{label} {text}\n\n"): the label starts the first line of the
\* text, the other lines follow as they are, then a blank line
WriteLabelled(label, text) ==
    <<(<<label>> \o Head(text))>> \o Tail(text) \o << <<>> >>

RECURSIVE WriteTurns(_, _)
WriteTurns(ms, i) ==
    IF ms = <<>> THEN <<>>
    ELSE WriteLabelled(AgentLabel(i), Head(ms)) \o WriteTurns(Tail(ms), i + 1)

\* the lines of conversation.txt
RenderConversation(p, a, s, ms) ==
    WriteLabelled("Problem:", p) \o WriteLabelled("Additional Information:", a)
    \o WriteLabelled("Proposed Solution:", s) \o WriteTurns(ms, 0)

\* reading conversation.txt back: an entry starts at a line that begins with
\* an agent label and follows a blank line, and runs to the blank line before
\* the next entry
EntryStarts(lines) ==
    {k \in 1..Len(lines) :
        /\ lines[k] # <<>>
        /\ Head(lines[k]) \in AgentLabels
        /\ k > 1 => lines[k - 1] = <<>>}

EntryEnd(lines, k) ==
    LET later == {m \in EntryStarts(lines) : m > k}
        stop == IF later = {} THEN Len(lines) + 1
                ELSE CHOOSE m \in later : \A n \in later : m <= n
    IN  IF lines[stop - 1] = <<>> /\ stop - 1 > k THEN stop - 2 ELSE stop - 1

ParseConversation(lines) ==
    LET starts == EntryStarts(lines)
        nth(j) == CHOOSE k \in starts :
                      Cardinality({m \in starts : m < k}) = j - 1
    IN  [j \in 1..Cardinality(starts) |->
            <<Tail(lines[nth(j)])>>
            \o SubSeq(lines, nth(j) + 1, EntryEnd(lines, nth(j)))]

\* the lines a text may have
LineChoices == {<<>>, <<"w">>, <<"Agent 2:", "w">>}

\* texts without surrounding whitespace: "" or lines with a first and a last
\* line that are not blank
LineTexts ==
    {<< <<>> >>} \cup
    {t \in UNION {[1..n -> LineChoices] : n \in 1..MaxLines} :
        t[1] # <<>> /\ t[Len(t)] # <<>>}

ExportInit ==
    /\ pc = "export"
    /\ engine \in {"gpt-3.5-turbo"}
    /\ context_len = ContextLenOf(engine)
    /\ max_len = 0
    /\ problem = << <<"w">> >>
    /\ additional \in {<< <<>> >>, << <<"w">> >>}
    /\ messages \in UNION {[1..n -> LineTexts] : n \in 1..MaxExportTurns}
    /\ seed = messages[1]
    /\ max_tokens = 0
    /\ active_prompt = Prompt("none", Empty, Empty, <<>>, Empty)
    /\ conversation_string = <<>>
    /\ synthesis = Empty
    /\ html = Empty
    /\ files = <<>>
    /\ chatCalls = <<>>
    /\ queryCalls = <<>>
    /\ error = "none"

\* with open("conversation.txt", "w") as f: ...
WriteConversation ==
    /\ pc = "export"
    /\ files' = <<[name |-> "conversation.txt",
                   content |-> RenderConversation(problem, additional, seed,
                                                  messages)]>>
    /\ pc' = "exported"
    /\ UNCHANGED <<engine, context_len, max_len, problem, additional, seed,
                   messages, max_tokens, active_prompt, conversation_string,
                   synthesis, html, chatCalls, queryCalls, error>>

ExportSpec == ExportInit /\ [][WriteConversation]_vars

----------------------------------------------------------------------------
\* Helpers of the properties.

Last(sq) == sq[Len(sq)]

Debating == pc \in {"loop", "agent1", "agent2"}

PastDebate == pc \in {"synthesize", "export", "report", "done"}

\* transcript positions (from 1) that hold Agent-2 replies
Agent2Turns(ms) == {i \in 3..Len(ms) : i % 2 = 1}

ChatIssued == Len(chatCalls') = Len(chatCalls) + 1

\* the guard on MaxTurns never stops a run
TurnsWithinBound == Debating => Len(messages) < MaxTurns

----------------------------------------------------------------------------
\* C1: after an Agent-2 reply is appended, the run leaves the loop when the
\* trimmed reply has fewer than 50 characters and goes back to the loop test
\* when it has 50 or more; the loop test starts another iteration exactly when
\* the token count of the whole transcript is below max_len; and no chat call
\* is ever issued while the transcript holds an Agent-2 reply shorter than 50.
C1_ShortReplyStops ==
    [][ /\ (pc = "agent2" /\ pc' # "raised") =>
            /\ len(Last(messages')) < 50 => pc' = "synthesize"
            /\ len(Last(messages')) >= 50 => pc' = "loop"
        /\ pc = "loop" =>
            (pc' = "agent1" <=> compute_total_tokens(messages) < max_len)
        /\ ChatIssued =>
            \A i \in Agent2Turns(messages) : len(messages[i]) >= 50
      ]_vars

\* a second iteration ran after a long Agent-2 reply and a short one ended it
C1_Witness ==
    /\ pc = "synthesize"
    /\ Len(messages) = 5
    /\ len(messages[3]) >= 50
    /\ len(messages[5]) < 50
    /\ messages[5] # Empty

\* iterations of the debating loop completed so far
Iterations == (Len(messages) - 1) \div 2

\* C2: the debating loop runs a bounded number of iterations, at most max_len
\* of them (none for max_len <= 0), whatever the replies are, and every run
\* leaves it: it reaches the synthesis stage unless a remote call raised.
C2_DebateTerminates ==
    /\ [](Debating => Iterations <= (IF max_len > 0 THEN max_len ELSE 0))
    /\ <>(PastDebate \/ pc = "raised")

\* the budget ended a debate in which an agent replied with nothing
C2_Witness ==
    /\ pc = "synthesize"
    /\ Len(messages) >= 3
    /\ \E i \in 2..Len(messages) : messages[i] = Empty
    /\ len(Last(messages)) >= 50
    /\ compute_total_tokens(messages) >= max_len

\* C3: while debating and at the hand-off to synthesis, the token count of
\* the transcript is at most max_len when the seed alone is below max_len
\* (no reply exceeds the max_tokens of its request).
C3_BudgetEnforced ==
    (/\ Debating \/ pc = "synthesize"
     /\ compute_total_tokens(<<seed>>) < max_len)
    => compute_total_tokens(messages) <= max_len

\* C4: when the seed alone has max_len tokens or more, no chat call is
\* issued, the transcript is the seed alone, and once the loop is left the
\* synthesis call has been issued over that one-message transcript.
C4_ZeroTurnDebate ==
    (/\ messages # <<>>
     /\ compute_total_tokens(<<seed>>) >= max_len)
    => /\ chatCalls = <<>>
       /\ messages = <<seed>>
       /\ pc \notin {"loop", "synthesize"} =>
            \E i \in 1..Len(queryCalls) :
                queryCalls[i].messages[1].content
                    = SynthesisPrompt(problem, additional, Flatten(<<seed>>))

\* C5: every chat request issued carries max_tokens >= 1.
C5_PositiveMaxTokens ==
    \A k \in 1..Len(chatCalls) : chatCalls[k].request.max_tokens >= 1

\* an Agent-2 call issued although the Agent-1 reply used up the budget
C5_Witness ==
    /\ Len(chatCalls) >= 2
    /\ chatCalls[2].starter = "assistant"
    /\ compute_total_tokens(chatCalls[2].history) >= max_len

\* C6: the k-th chat request of a run is built from the first k messages of
\* the transcript, the seed and the k-1 earlier replies in order, and sends
\* them all after its system message.
C6_FullHistory ==
    \A k \in 1..Len(chatCalls) :
        LET c == chatCalls[k] IN
        /\ Len(c.history) = k
        /\ k <= Len(messages)
        /\ Len(c.request.messages) = k + 1
        /\ \A i \in 1..k : /\ c.history[i] = messages[i]
                           /\ c.request.messages[i + 1].content = messages[i]

\* four chat calls were answered
C6_Witness ==
    /\ Len(chatCalls) = 4
    /\ Len(messages) = 5

\* the role strict alternation from the starter gives to position i (from 0)
Alternating(i, starter) ==
    IF starter = "user"
    THEN (IF i % 2 = 0 THEN "user" ELSE "assistant")
    ELSE (IF i % 2 = 0 THEN "assistant" ELSE "user")

\* C7: the request chat_GPT builds holds one system message, first and equal
\* to the system prompt, then the history messages unchanged and in order,
\* tagged user at even positions and assistant at odd ones when the starter
\* is user, and the other way round when the starter is assistant.
C7_AlternatingRoles ==
    \A k \in 1..Len(chatCalls) :
        LET c == chatCalls[k]
            m == c.request.messages
        IN  /\ Len(m) = Len(c.history) + 1
            /\ m[1].role = "system"
            /\ m[1].content = c.system
            /\ \A i \in 1..Len(c.history) :
                  /\ m[i + 1].content = c.history[i]
                  /\ m[i + 1].role = Alternating(i - 1, c.starter)

\* chat_GPT returned for starter assistant and a history of three or more
C7_Witness ==
    /\ pc = "returned"
    /\ chatCalls[1].starter = "assistant"
    /\ Len(chatCalls[1].history) >= 3

\* the role of transcript position i (from 1) in chat request c
RoleIn(c, i) == c.request.messages[i + 1].role

\* C8 as stated: a transcript position has the same role in every chat
\* request that includes it.
C8_SameRoleEveryRead ==
    \A a, b \in 1..Len(chatCalls) :
        \A i \in 1..Len(chatCalls[a].history) :
            i <= Len(chatCalls[b].history)
            => RoleIn(chatCalls[a], i) = RoleIn(chatCalls[b], i)

\* C8 amended: a transcript position has the same role in every chat request
\* issued with the same starter, and the other role in the requests issued
\* with the other starter.
C8_RoleFixedPerStarter ==
    \A a, b \in 1..Len(chatCalls) :
        \A i \in 1..Len(chatCalls[a].history) :
            i <= Len(chatCalls[b].history)
            => (RoleIn(chatCalls[a], i) = RoleIn(chatCalls[b], i)
                <=> chatCalls[a].starter = chatCalls[b].starter)

\* both agents were called twice
C8_Witness ==
    /\ Len(chatCalls) = 4
    /\ chatCalls[1].starter = chatCalls[3].starter
    /\ chatCalls[2].starter = chatCalls[4].starter
    /\ chatCalls[1].starter # chatCalls[2].starter

\* the run ended because the call with this prompt template raised
CallFailed(template) ==
    /\ pc = "raised"
    /\ error = "GenerationError"
    /\ queryCalls # <<>>
    /\ Last(queryCalls).messages[1].content.template = template

Written(name) == \E i \in 1..Len(files) : files[i].name = name

\* C9: when the synthesis call raises, conversation.txt has been written;
\* when the report call raises, conversation.txt and synthesis.txt have.
C9_ExportNotGated ==
    /\ CallFailed("synthesis") => Written("conversation.txt")
    /\ CallFailed("report") =>
           Written("conversation.txt") /\ Written("synthesis.txt")

\* C10: with an engine that has no context ceiling, no remote call is issued.
C10_UnknownEngineRejected ==
    context_len = {} => (queryCalls = <<>> /\ chatCalls = <<>>)

\* C11: once a remote call has raised, the run is over: the script is at no
\* step any more, no further step is possible, and so no call is issued or
\* issued again.
C11_NoRetry ==
    error # "none" => (pc = "raised" /\ ~ENABLED Next)

\* a chat call of the second iteration raised
C11_Witness ==
    /\ pc = "raised"
    /\ error = "GenerationError"
    /\ Len(chatCalls) >= 3
    /\ Len(messages) = Len(chatCalls)

\* the stage of a position of the script: seeding, debating, done
Stage(p) ==
    IF p = "seeding" THEN 0
    ELSE IF p \in {"loop", "agent1", "agent2"} THEN 1
    ELSE 2

\* the single-prompt requests that ask for a seed
SeedCalls ==
    {k \in 1..Len(queryCalls) :
        queryCalls[k].messages[1].content.template
            \in {"propose", "propose_additional"}}

\* C12: the step that ends seeding issues exactly one single-prompt call when
\* the supplied seed is empty, and its trimmed result becomes the first
\* message; it issues none when a seed is supplied, and the supplied seed
\* becomes the first message. No other step issues a seeding call, the seed
\* never changes afterwards, the stages follow each other in the order
\* seeding, debating, done, and chat calls are issued in the debating stage
\* only.
C12_SeedOnceThenDebate ==
    [][ /\ (pc = "seeding" /\ pc' = "loop" /\ seed = Empty) =>
            /\ Len(queryCalls') = 1
            /\ SeedCalls' = {1}
            /\ seed'.pad = 0
            /\ messages' = <<seed'>>
        /\ (pc = "seeding" /\ seed # Empty) =>
            /\ pc' = "loop"
            /\ queryCalls' = <<>>
            /\ seed' = seed
            /\ messages' = <<seed>>
        /\ pc # "seeding" => (seed' = seed /\ SeedCalls' = SeedCalls)
        /\ pc' # "raised" => Stage(pc') >= Stage(pc)
        /\ ChatIssued => Stage(pc) = 1
      ]_vars

\* a run with a generated seed, a debate and a report
C12_Witness ==
    /\ pc = "done"
    /\ SeedCalls = {1}
    /\ Len(queryCalls) = 3
    /\ chatCalls # <<>>

\* C13: reading conversation.txt back gives the messages of the transcript
\* that was written: as many entries, with the same text, in the same order.
C13_RoundTrip ==
    pc = "exported" => ParseConversation(files[1].content) = messages

\* C13 for transcripts in which no line after the first of a text begins with
\* an agent label: these are read back as written.
C13_RoundTripPlain ==
    (/\ pc = "exported"
     /\ \A i \in 1..Len(messages) : \A k \in 2..Len(messages[i]) :
            messages[i][k] = <<>> \/ Head(messages[i][k]) \notin AgentLabels
     /\ \A k \in 2..Len(seed) :
            seed[k] = <<>> \/ Head(seed[k]) \notin AgentLabels)
    => ParseConversation(files[1].content) = messages

\* C14: the two chat requests of an iteration carry the same max_tokens:
\* max_len minus the token count of the transcript the Agent-1 request was
\* built from.
C14_SharedSnapshot ==
    \A k \in 1..Len(chatCalls) :
        LET first == IF k % 2 = 1 THEN k ELSE k - 1 IN
        chatCalls[k].request.max_tokens
            = max_len - compute_total_tokens(SubSeq(messages, 1, first))

\* the second iteration's Agent-2 request, after an Agent-1 reply with tokens
C14_Witness ==
    /\ Len(chatCalls) = 4
    /\ Len(messages) >= 4
    /\ messages[4].toks >= 1

\* C15: from the moment the transcript exists its first message is the seed;
\* a step of the debate leaves it as it is or appends one message after the
\* others, which stay as they are; the steps after the debate leave it as it
\* is.
C15_AppendOnly ==
    [][ /\ messages' # <<>> => messages'[1] = seed'
        /\ messages # <<>> =>
            \/ messages' = messages
            \/ /\ Len(messages') = Len(messages) + 1
               /\ SubSeq(messages', 1, Len(messages)) = messages
        /\ PastDebate => messages' = messages
      ]_vars

\* the report was written after a debate of two iterations
C15_Witness ==
    /\ pc = "done"
    /\ Len(messages) = 5

\* the agent a chat request is made for, from its place in the order of calls
Actor(k) == IF k % 2 = 1 THEN 1 ELSE 2

\* the agent that wrote the reply at transcript position i (from 1, i >= 2)
Author(i) == IF i % 2 = 0 THEN 1 ELSE 2

\* C16: in every chat request the last message of the history is tagged
\* user, every earlier reply of the agent the request is made for is tagged
\* assistant, and every reply of the other agent is tagged user.
C16_PartnerIsUser ==
    \A k \in 1..Len(chatCalls) :
        LET c == chatCalls[k]
            n == Len(c.history)
        IN  /\ RoleIn(c, n) = "user"
            /\ \A i \in 2..n :
                  RoleIn(c, i) = IF Author(i) = Actor(k) THEN "assistant"
                                 ELSE "user"

\* both agents were called in a second iteration
C16_Witness ==
    /\ Len(chatCalls) = 4
    /\ pc \in {"loop", "synthesize"}

\* C17: after an Agent-1 reply, however short, the script is at the Agent-2
\* call, which can be issued; the step taken there issues it, with the whole
\* transcript and the Agent-2 starter.
C17_OnlyAgent2Tested ==
    /\ [][ /\ (pc = "agent1" /\ pc' # "raised") => pc' = "agent2"
           /\ pc = "agent2" =>
                /\ ChatIssued
                /\ Last(chatCalls').starter = "assistant"
                /\ Last(chatCalls').history = messages
         ]_vars
    /\ [](pc = "agent2" => ENABLED Next)

\* the Agent-2 call was issued after an empty Agent-1 reply
C17_Witness ==
    /\ Len(chatCalls) >= 2
    /\ Len(messages) >= 2
    /\ messages[2] = Empty
    /\ chatCalls[2].starter = "assistant"

\* the agent whose turn the message at transcript position i (from 1, i >= 2)
\* was appended as: the one the chat request that produced it was made for
TurnOf(i) == IF chatCalls[i - 1].starter = "user" THEN 1 ELSE 2

\* every entry of a flattened transcript has the label of the agent whose
\* turn it was appended as
LabelsFollowTurns(entries) ==
    \A i \in 2..Len(entries) :
        i - 1 <= Len(chatCalls) => entries[i].agent = TurnOf(i)

\* C18: in the flattened document of the synthesis and in conversation.txt
\* every reply has the label of the agent whose turn it was appended as.
C18_LabelsMatchTurns ==
    /\ LabelsFollowTurns(conversation_string)
    /\ \A k \in 1..Len(files) :
          files[k].name = "conversation.txt"
          => LabelsFollowTurns(files[k].content.entries)

\* C20: once the debate has ended (by the budget or by a short Agent-2
\* reply), the transcript holds the seed and as many Agent-1 as Agent-2
\* replies, so its length is odd, and, when there are replies, the last one
\* is an Agent-2 reply.
C20_CompletePairs ==
    PastDebate =>
        /\ Len(messages) % 2 = 1
        /\ Len(messages) = 1 + Len(chatCalls)
        /\ Cardinality({k \in 1..Len(chatCalls) : chatCalls[k].starter = "user"})
             = Cardinality({k \in 1..Len(chatCalls) :
                               chatCalls[k].starter = "assistant"})
        /\ Len(messages) > 1 => Last(chatCalls).starter = "assistant"

\* a debate of two iterations that the budget ended
C20_Witness ==
    /\ pc = "synthesize"
    /\ Len(messages) = 5
    /\ len(Last(messages)) >= 50

\* the single-prompt requests of the synthesis and of the report
LongCalls ==
    {k \in 1..Len(queryCalls) :
        queryCalls[k].messages[1].content.template \in {"synthesis", "report"}}

\* C19: every synthesis request and every report request carries
\* max_tokens >= 1.
C19_PositiveLongMaxTokens ==
    \A k \in LongCalls : queryCalls[k].max_tokens >= 1

\* C19 for the report alone: every report request carries max_tokens >= 1.
C19_PositiveReportMaxTokens ==
    \A k \in LongCalls :
        queryCalls[k].messages[1].content.template = "report"
        => queryCalls[k].max_tokens >= 1

====
